---- MODULE Spec2Model ----
(***************************************************************************)
(* A model of journalctl-ts (src/src/JournalCtl.ts): the JournalCtl        *)
(* EventEmitter that supervises a journalctl subprocess, decodes its       *)
(* standard output line by line, emits 'message' / 'error' / 'exit'        *)
(* signals, and offers one AsyncGenerator (createGenerator) over them.     *)
(*                                                                         *)
(* The instance is modelled after a successful constructor call (the       *)
(* subprocess has been spawned, the handlers of lines 211-244 are wired).  *)
(* Every action is one callback of the Node.js event loop, run to          *)
(* completion: a subprocess event handler, a call of the public API, or    *)
(* the resumption of the generator body after an await.                    *)
(***************************************************************************)
EXTENDS Integers, Sequences, FiniteSets, TLC

\* ---------------------------------------------------------------- bounds
\* Number of standard-output lines the subprocess delivers at most.
MaxLines == 2
\* Number of createGenerator() calls made on the instance at most.
NumGens == 2
\* Number of standard-error chunks the subprocess delivers at most.
MaxErrChunks == 2
\* Number of tokens of a standard-output line at most.
MaxTokens == 5
\* Number of characters of a sample name, identifier or unit at most.
MaxChars == 2
\* Number of names of a sample output-field list at most.
MaxFields == 2

Gens == 1..NumGens
\* A decoded record is identified by the number (1..MaxLines) of the line it
\* came from.

\* ------------------------------------------------------- program values
\* The value `undefined` (resolve(undefined), shift() of an empty array):
\* the one falsy value a promise of messagePromises can settle to.
UNDEF == 0
\* A promise of messagePromises that has not been resolved yet.
PENDING == [settled |-> FALSE, value |-> UNDEF]
\* A promise resolved with v (a record, or UNDEF).
Resolved(v) == [settled |-> TRUE, value |-> v]
\* The exit code `null` Node reports for a subprocess killed by a signal.
NullCode == -1
ExitCodes == {0, 1, NullCode}
\* Causes of an 'error' signal: abnormal exit, spawn failure, decode error.
SpawnErrors == {"ENOENT", "EACCES", "OTHER"}
\* The texts of the errors the instance makes itself on a spawn failure.
NotFoundText == "journalctl executable not found. Is this a systemd distribution?"
NotAccessibleText == "journalctl executable not accessible."

\* stdErrorText: string | null.  The text is the sequence of the chunks
\* appended to it (chunk k is identified by k); "" is the empty sequence.
EmptyText == [null |-> FALSE, text |-> <<>>]
\* The message of an Error object made by the 'exit' handler.
NoMessage == [from |-> "none", text |-> <<>>, code |-> 0]

(***************************************************************************)
(* Strings.  A string is the sequence of its characters, so that the       *)
(* regular expressions of the validators are computed on the text.         *)
(***************************************************************************)
Digits == {"0", "1", "2", "3", "4", "5", "6", "7", "8", "9"}
UpperCase == {"A", "B", "C", "D", "E", "F", "G", "H", "I", "J", "K", "L", "M",
              "N", "O", "P", "Q", "R", "S", "T", "U", "V", "W", "X", "Y", "Z"}
LowerCase == {"a", "b", "c", "d", "e", "f", "g", "h", "i", "j", "k", "l", "m",
              "n", "o", "p", "q", "r", "s", "t", "u", "v", "w", "x", "y", "z"}
\* The class \s, as far as the sample texts use it.
WhiteSpace == {" ", "\t"}

\* The value of the decimal digit c.
DigitVal(c) ==
    CASE c = "0" -> 0 [] c = "1" -> 1 [] c = "2" -> 2 [] c = "3" -> 3 [] c = "4" -> 4
      [] c = "5" -> 5 [] c = "6" -> 6 [] c = "7" -> 7 [] c = "8" -> 8 [] c = "9" -> 9

\* The number written by the n digits of s from position i on.
RECURSIVE DigitsVal(_, _, _)
DigitsVal(s, i, n) ==
    IF n = 0 THEN 0
    ELSE 10 * DigitsVal(s, i, n - 1) + DigitVal(s[i + n - 1])

\* `${n}` for an integer n >= 0.
RECURSIVE NumStr(_)
NumStr(n) ==
    IF n < 10 THEN <<ToString(n)>>
    ELSE NumStr(n \div 10) \o <<ToString(n % 10)>>

\* `${n}` padded with zeros to at least w digits, as toISOString pads.
RECURSIVE Pad(_, _)
Pad(n, w) ==
    IF w <= 1 THEN NumStr(n)
    ELSE Pad(n \div 10, w - 1) \o <<ToString(n % 10)>>

(***************************************************************************)
(* The validators, lines 57-122.  Each regular expression is the predicate *)
(* "test(text)"; a validator throws exactly when its `..._Throws` holds    *)
(* and returns its argument otherwise.                                     *)
(***************************************************************************)
\* Mutant: letters of either case pass.
RegExp_ValidFieldName_AnyCase(s) ==
    /\ Len(s) >= 1
    /\ \A i \in 1..Len(s) : s[i] \in UpperCase \cup LowerCase \cup Digits \cup {"_"}

\* /^[A-Z0-9_]+$/, line 58.
RegExp_ValidFieldName(s) ==
    /\ Len(s) >= 1
    /\ \A i \in 1..Len(s) : s[i] \in UpperCase \cup Digits \cup {"_"}

\* Mutant: the "+" is read as "*", so the empty identifier passes.
RegExp_SyslogIdentifier_Star(s) ==
    \A i \in 1..Len(s) : s[i] \notin WhiteSpace

\* /^[^\s]+$/, line 70.
RegExp_SyslogIdentifier(s) ==
    /\ Len(s) >= 1
    /\ \A i \in 1..Len(s) : s[i] \notin WhiteSpace

\* /^[A-Za-z0-9:\-_\.\\]+$/, line 119.
RegExp_Systemd_Unit_Name(s) ==
    /\ Len(s) >= 1
    /\ \A i \in 1..Len(s) :
          s[i] \in UpperCase \cup LowerCase \cup Digits \cup {":", "-", "_", ".", "\\"}

\* s has digits at the positions ds and the characters of sep elsewhere.
HasShape(s, ds, sep) ==
    /\ \A i \in ds : s[i] \in Digits
    /\ \A i \in DOMAIN sep : s[i] = sep[i]

\* /^\d\d\d\d-\d\d-\d\d(?: \d\d:\d\d(?::\d\d)?)?$/, line 82.
RegExp_DateString(s) ==
    \/ /\ Len(s) = 10
       /\ HasShape(s, {1, 2, 3, 4, 6, 7, 9, 10}, [i \in {5, 8} |-> "-"])
    \/ /\ Len(s) = 16
       /\ HasShape(s, {1, 2, 3, 4, 6, 7, 9, 10, 12, 13, 15, 16},
                   (5 :> "-") @@ (8 :> "-") @@ (11 :> " ") @@ (14 :> ":"))
    \/ /\ Len(s) = 19
       /\ HasShape(s, {1, 2, 3, 4, 6, 7, 9, 10, 12, 13, 15, 16, 18, 19},
                   (5 :> "-") @@ (8 :> "-") @@ (11 :> " ") @@ (14 :> ":")
                   @@ (17 :> ":"))

(***************************************************************************)
(* Option values.  A JavaScript value is a record tagged with its type.    *)
(***************************************************************************)
Undefined == [kind |-> "undefined"]
StringValue(chars) == [kind |-> "string", chars |-> chars]
\* A number: an integer n, a non-integer (n is its floor), or NaN.
IntValue(n) == [kind |-> "number", int |-> TRUE, nan |-> FALSE, n |-> n]
FracValue(n) == [kind |-> "number", int |-> FALSE, nan |-> FALSE, n |-> n]
NaNValue == [kind |-> "number", int |-> FALSE, nan |-> TRUE, n |-> 0]
\* A Date object: its time value in seconds since the epoch (the texts
\* have no finer part), or the invalid date.
DateValue(t) == [kind |-> "Date", nan |-> FALSE, time |-> t]
InvalidDate == [kind |-> "Date", nan |-> TRUE, time |-> 0]
\* { from, to } of a priority range.
RangeValue(from, to) == [kind |-> "range", from |-> from, to |-> to]

\* The conversion to boolean of `if (options.x)` for the types above.
Truthy(v) ==
    CASE v.kind = "undefined" -> FALSE
      [] v.kind = "string" -> v.chars # <<>>
      [] v.kind = "number" -> ~v.nan /\ ~(v.int /\ v.n = 0)
      [] OTHER -> TRUE

(***************************************************************************)
(* Date: the parts of the built-in the constructor uses, in seconds.       *)
(***************************************************************************)
SecondsPerDay == 86400

\* Days from 1970-01-01 to the day d of month m of year y (proleptic
\* Gregorian calendar); a day past the month's end runs into the next month.
DaysFromCivil(y, m, d) ==
    LET yy == IF m <= 2 THEN y - 1 ELSE y
        era == yy \div 400
        yoe == yy - era * 400
        mp == IF m > 2 THEN m - 3 ELSE m + 9
        doy == (153 * mp + 2) \div 5 + d - 1
        doe == yoe * 365 + yoe \div 4 - yoe \div 100 + doy
    IN  era * 146097 + doe - 719468

\* The inverse: <<year, month, day>> of day number z.
CivilFromDays(z) ==
    LET zz == z + 719468
        era == zz \div 146097
        doe == zz - era * 146097
        yoe == (doe - doe \div 1460 + doe \div 36524 - doe \div 146096) \div 365
        doy == doe - (365 * yoe + yoe \div 4 - yoe \div 100)
        mp == (5 * doy + 2) \div 153
        d == doy - (153 * mp + 2) \div 5 + 1
        m == IF mp < 10 THEN mp + 3 ELSE mp - 9
        y == yoe + era * 400
    IN  << IF m <= 2 THEN y + 1 ELSE y, m, d >>

\* new Date(s) for a text s of the shape RegExp_DateString, in a process
\* whose local time is tz seconds ahead of UTC.  The date-only form is read
\* as UTC, the forms with a time of day as local time; a field out of range
\* makes the invalid date.
ParseDate(s, tz) ==
    LET y == DigitsVal(s, 1, 4)
        mo == DigitsVal(s, 6, 2)
        d == DigitsVal(s, 9, 2)
        h == IF Len(s) >= 16 THEN DigitsVal(s, 12, 2) ELSE 0
        mi == IF Len(s) >= 16 THEN DigitsVal(s, 15, 2) ELSE 0
        sec == IF Len(s) >= 19 THEN DigitsVal(s, 18, 2) ELSE 0
        wall == DaysFromCivil(y, mo, d) * SecondsPerDay + h * 3600 + mi * 60 + sec
    IN  IF mo \notin 1..12 \/ d \notin 1..31 \/ h > 23 \/ mi > 59 \/ sec > 59
        THEN InvalidDate
        ELSE DateValue(IF Len(s) = 10 THEN wall ELSE wall - tz)

\* Date.prototype.toISOString(): "YYYY-MM-DDTHH:MM:SS.000Z" in UTC.
ToISOString(t) ==
    LET days == t \div SecondsPerDay
        rest == t % SecondsPerDay
        ymd == CivilFromDays(days)
    IN  Pad(ymd[1], 4) \o <<"-">> \o Pad(ymd[2], 2) \o <<"-">> \o Pad(ymd[3], 2)
        \o <<"T">> \o Pad(rest \div 3600, 2) \o <<":">>
        \o Pad((rest % 3600) \div 60, 2) \o <<":">> \o Pad(rest % 60, 2)
        \o <<".", "0", "0", "0", "Z">>

\* s.replace(/T|\.\d\d\dZ/g, ' ').
RECURSIVE ReplaceTZ(_)
ReplaceTZ(s) ==
    IF s = <<>> THEN <<>>
    ELSE IF s[1] = "T" THEN <<" ">> \o ReplaceTZ(Tail(s))
    ELSE IF /\ Len(s) >= 5
            /\ s[1] = "."
            /\ \A i \in 2..4 : s[i] \in Digits
            /\ s[5] = "Z"
         THEN <<" ">> \o ReplaceTZ(SubSeq(s, 6, Len(s)))
    ELSE <<s[1]>> \o ReplaceTZ(Tail(s))

\* s.trim().
RECURSIVE Trim(_)
Trim(s) ==
    IF s = <<>> THEN s
    ELSE IF s[1] \in WhiteSpace THEN Trim(Tail(s))
    ELSE IF s[Len(s)] \in WhiteSpace THEN Trim(SubSeq(s, 1, Len(s) - 1))
    ELSE s

\* The texts the program itself writes.
MESSAGE == <<"M", "E", "S", "S", "A", "G", "E">>
SYSLOG_IDENTIFIER == <<"S", "Y", "S", "L", "O", "G", "_", "I", "D", "E", "N", "T", "I", "F", "I", "E", "R">>
HOSTNAME == <<"_", "H", "O", "S", "T", "N", "A", "M", "E">>
\* const args = ['-o', 'json'], line 156.
InitialArgs == << <<"-", "o">>, <<"j", "s", "o", "n">> >>

(***************************************************************************)
(* The constructor's statements, lines 156-203, as functions from the      *)
(* parameters and the argument list so far to the argument list after the  *)
(* statement, or to a throw (with the list as the throw leaves it).        *)
(***************************************************************************)
\* The literal 10 of line 168 and the highest priority of line 108.
DefaultLines == 10
MaxPriority == 7

Ok(a) == [threw |-> FALSE, args |-> a]
Throw(a) == [threw |-> TRUE, args |-> a]

\* Mutant: a date text is not validated.
validateDate_Never(s, zone) == FALSE

\* validateDate, lines 81-86.
validateDate_Throws(s, zone) ==
    \/ ~RegExp_DateString(s)
    \/ ParseDate(s, zone).nan

\* validatePositiveInteger, lines 93-97.
validatePositiveInteger_Throws(v) ==
    \/ v.kind # "number"
    \/ ~v.int
    \/ v.nan
    \/ v.n < 0

\* Mutant: the priority has no upper limit.
validatePriority_NoUpper(v) ==
    \/ v.kind # "number"
    \/ ~v.int
    \/ v.nan
    \/ v.n < 0

\* validatePriority, lines 106-110.
validatePriority_Throws(v) ==
    \/ validatePositiveInteger_Throws(v)
    \/ v.n < 0
    \/ v.n > MaxPriority

\* The dateString of lines 159 and 173: the validated text, or the UTC
\* fields of the Date object; toISOString throws on the invalid date.
DateString(v, zone) ==
    IF v.kind = "string"
    THEN [threw |-> validateDate_Throws(v.chars, zone), str |-> v.chars]
    ELSE IF v.nan THEN [threw |-> TRUE, str |-> <<>>]
    ELSE [threw |-> FALSE, str |-> Trim(ReplaceTZ(ToISOString(v.time)))]

\* Lines 158-164.
PushUntil(o, zone, a) ==
    IF Truthy(o.until)
    THEN LET d == DateString(o.until, zone)
         IN  IF d.threw THEN Throw(a) ELSE Ok(a \o <<<<"-", "U">>, d.str>>)
    ELSE Ok(Append(a, <<"-", "f">>))

\* Mutant: '-a' is put in front of the list.
PushAll_First(o, a) ==
    IF Truthy(o.all) THEN Ok(<<<<"-", "a">>>> \o a) ELSE Ok(a)

\* Line 165.
PushAll(o, a) ==
    IF Truthy(o.all) THEN Ok(Append(a, <<"-", "a">>)) ELSE Ok(a)

\* Lines 167-171.
PushLines(o, a) ==
    IF ~Truthy(o.until) /\ ~Truthy(o.since) /\ o.lines = Undefined
    THEN Ok(a \o <<<<"-", "n">>, NumStr(DefaultLines)>>)
    ELSE IF o.lines # Undefined
    THEN IF validatePositiveInteger_Throws(o.lines) THEN Throw(a)
         ELSE Ok(a \o <<<<"-", "n">>, NumStr(o.lines.n)>>)
    ELSE Ok(a)

\* Lines 172-175.
PushSince(o, zone, a) ==
    IF Truthy(o.since)
    THEN LET d == DateString(o.since, zone)
         IN  IF d.threw THEN Throw(a) ELSE Ok(a \o <<<<"-", "S">>, d.str>>)
    ELSE Ok(a)

\* new Date(x) for a text, the object itself for a Date, lines 177-178.
AsDate(v, zone) ==
    IF v.kind = "string" THEN ParseDate(v.chars, zone) ELSE v

\* dSince.getTime() > dUntil.getTime(), line 179; false when either is NaN.
SinceAfterUntil(dSince, dUntil) ==
    ~dSince.nan /\ ~dUntil.nan /\ dSince.time > dUntil.time

\* Lines 176-180.
CheckOrder(o, zone, a) ==
    IF /\ Truthy(o.since)
       /\ Truthy(o.until)
       /\ SinceAfterUntil(AsDate(o.since, zone), AsDate(o.until, zone))
    THEN Throw(a)
    ELSE Ok(a)

\* Lines 181-188: '-p' is pushed before the value is validated.
PushPriority(o, a) ==
    IF o.priority = Undefined THEN Ok(a)
    ELSE IF o.priority.kind = "number"
    THEN IF validatePriority_Throws(o.priority) THEN Throw(Append(a, <<"-", "p">>))
         ELSE Ok(a \o <<<<"-", "p">>, NumStr(o.priority.n)>>)
    ELSE IF \/ validatePriority_Throws(o.priority.from)
            \/ validatePriority_Throws(o.priority.to)
         THEN Throw(Append(a, <<"-", "p">>))
         ELSE Ok(a \o <<<<"-", "p">>, NumStr(o.priority.from.n) \o <<".", ".">>
                                     \o NumStr(o.priority.to.n)>>)

\* Line 189.
PushIdentifier(o, a) ==
    IF o.identifier = Undefined THEN Ok(a)
    ELSE IF ~RegExp_SyslogIdentifier(o.identifier.chars) THEN Throw(a)
    ELSE Ok(a \o <<<<"-", "t">>, o.identifier.chars>>)

\* validateUnit, lines 118-122.
validateUnit_Throws(chars) == ~RegExp_Systemd_Unit_Name(chars)

\* Line 190.
PushUnit(o, a) ==
    IF ~Truthy(o.unit) THEN Ok(a)
    ELSE IF validateUnit_Throws(o.unit.chars) THEN Throw(a)
    ELSE Ok(a \o <<<<"-", "u">>, o.unit.chars>>)

\* Lines 192-194: the entries of the filter object in enumeration order.
RECURSIVE PushFilterEntries(_, _)
PushFilterEntries(entries, a) ==
    IF entries = <<>> THEN Ok(a)
    ELSE IF ~RegExp_ValidFieldName(entries[1].key) THEN Throw(a)
    ELSE PushFilterEntries(Tail(entries),
                           Append(a, entries[1].key \o <<"=">> \o entries[1].value))

\* Lines 191-195.
PushFilter(o, a) ==
    IF Truthy(o.filter) THEN PushFilterEntries(o.filter.entries, a) ELSE Ok(a)

\* outputFields.forEach(...), lines 197-199.
RECURSIVE PushFields(_, _)
PushFields(items, a) ==
    IF items = <<>> THEN Ok(a)
    ELSE IF ~RegExp_ValidFieldName(items[1]) THEN Throw(a)
    ELSE PushFields(Tail(items), a \o <<<<"-", "-", "o", "u", "t", "p", "u", "t", "-", "f", "i", "e", "l", "d">>, items[1]>>)

\* Mutant: no name is found in the list.
Includes_Never(items, name) == FALSE

\* outputFields.includes(name).
Includes(items, name) == \E i \in 1..Len(items) : items[i] = name

\* Lines 200-202 for one of the three names.
PushForced(items, name, a) ==
    IF Includes(items, name) THEN a ELSE a \o <<<<"-", "-", "o", "u", "t", "p", "u", "t", "-", "f", "i", "e", "l", "d">>, name>>

\* Lines 196-203.
PushOutputFields(of, a) ==
    IF ~Truthy(of) THEN Ok(a)
    ELSE LET r == PushFields(of.items, a)
         IN  IF r.threw THEN r
             ELSE Ok(PushForced(of.items, HOSTNAME,
                       PushForced(of.items, SYSLOG_IDENTIFIER,
                         PushForced(of.items, MESSAGE, r.args))))

(***************************************************************************)
(* The configurations the constructor is run on.                           *)
(***************************************************************************)
\* options = {}: every property is undefined.
DefaultOptions ==
    [until |-> Undefined, since |-> Undefined, all |-> Undefined,
     lines |-> Undefined, priority |-> Undefined, identifier |-> Undefined,
     unit |-> Undefined, filter |-> Undefined]
\* The argument list of new JournalCtl(): -o json -f -n 10.
DefaultArgs == InitialArgs \o << <<"-", "f">>, <<"-", "n">>, NumStr(DefaultLines) >>

\* A date without a time of day, one with, one of the wrong shape and one
\* whose month does not exist.
DateOnly == <<"2", "0", "2", "4", "-", "0", "3", "-", "0", "1">>
DateTime == <<"2", "0", "2", "4", "-", "0", "3", "-", "0", "1", " ", "0", "1", ":", "0", "0">>
DateMisshapen == <<"2", "0", "2", "4", "-", "3", "-", "1">>
DateNoMonth == <<"2", "0", "2", "4", "-", "1", "3", "-", "0", "1">>
\* new Date(2024-03-01T12:30:00Z).
NoonDate == DateValue(DaysFromCivil(2024, 3, 1) * SecondsPerDay + 45000)

UntilValues ==
    {Undefined, StringValue(<<>>), StringValue(DateOnly), StringValue(DateTime),
     StringValue(DateMisshapen), NoonDate}
SinceValues ==
    {Undefined, StringValue(DateOnly), StringValue(DateTime),
     StringValue(DateNoMonth), InvalidDate}
\* UTC and a zone two hours ahead of it.
TimeZones == {0, 7200}
AllValues == {Undefined, [kind |-> "boolean", b |-> TRUE]}
LinesValues == {Undefined, IntValue(0), IntValue(-1), FracValue(1)}
PriorityValues ==
    {Undefined, IntValue(3), IntValue(8), RangeValue(IntValue(2), IntValue(5))}
IdentifierValues ==
    {Undefined, StringValue(<<"s", "s", "h", "d">>), StringValue(<<"a", " ", "b">>)}
UnitValues ==
    {Undefined, StringValue(<<"s", "s", "h", ".", "s", "e", "r", "v", "i", "c", "e">>), StringValue(<<"a", " ", "b">>)}
\* { PRIORITY: "3" } and { priority: "3" }.
FilterValues ==
    {Undefined,
     [kind |-> "object", entries |-> <<[key |-> <<"P", "R", "I", "O", "R", "I", "T", "Y">>, value |-> <<"3">>]>>],
     [kind |-> "object", entries |-> <<[key |-> <<"p", "r", "i", "o", "r", "i", "t", "y">>, value |-> <<"3">>]>>]}
OutputFieldsValues ==
    {Undefined, [kind |-> "array", items |-> <<>>],
     [kind |-> "array", items |-> <<MESSAGE, <<"P", "R", "I", "O", "R", "I", "T", "Y">>>>],
     [kind |-> "array", items |-> <<<<"P", "R", "I", "O", "R", "I", "T", "Y">>, <<"p", "r", "i", "o", "r", "i", "t", "y">>>>]}

(***************************************************************************)
(* Lines of the standard output.  A line is the sequence of its lexical    *)
(* tokens: the braces, the comma, a white-space character, and members     *)
(* ("key":"value"), each written as one token.                             *)
(***************************************************************************)
\* "M" is "MESSAGE":"hello", "H" is "_HOSTNAME":"host1", "S" is
\* "SYSLOG_IDENTIFIER":"sshd"; "J" stands for the four address fields
\* journalctl writes on every entry, with the commas between them.
MemberTokens == {"M", "H", "S", "J"}
LineTokens == {"{", "}", ",", " "} \cup MemberTokens
AddressKeys == {"__CURSOR", "__REALTIME_TIMESTAMP", "__MONOTONIC_TIMESTAMP", "_BOOT_ID"}
Keys == {"MESSAGE", "_HOSTNAME", "SYSLOG_IDENTIFIER"} \cup AddressKeys

\* The properties a member token writes.
MemberKeys(tok) ==
    CASE tok = "M" -> {"MESSAGE"}
      [] tok = "H" -> {"_HOSTNAME"}
      [] tok = "S" -> {"SYSLOG_IDENTIFIER"}
      [] tok = "J" -> AddressKeys
\* The value a member token gives to the property k.
MemberValue(tok, k) ==
    CASE tok = "M" -> "hello"
      [] tok = "H" -> "host1"
      [] tok = "S" -> "sshd"
      [] tok = "J" -> k

\* A property of a record: absent (undefined), or present with a value.
Absent == [present |-> FALSE, value |-> ""]
Present(v) == [present |-> TRUE, value |-> v]
\* No record.
NoEntry == [k \in Keys |-> Absent]

\* The line without its white space, which JSON ignores between tokens.
RECURSIVE StripSpace(_)
StripSpace(line) ==
    IF line = <<>> THEN <<>>
    ELSE IF line[1] = " " THEN StripSpace(Tail(line))
    ELSE <<line[1]>> \o StripSpace(Tail(line))

\* JSON.parse(text): the record of an object text, whose members are
\* separated by single commas; a syntax error otherwise.
JSONParse(text) ==
    LET t == StripSpace(text)
        n == Len(t)
        inner == SubSeq(t, 2, n - 1)
        wellFormed ==
            /\ n >= 2
            /\ t[1] = "{"
            /\ t[n] = "}"
            /\ \/ inner = <<>>
               \/ /\ Len(inner) % 2 = 1
                  /\ \A i \in 1..Len(inner) :
                        IF i % 2 = 1 THEN inner[i] \in MemberTokens ELSE inner[i] = ","
    IN  IF ~wellFormed THEN [ok |-> FALSE, entry |-> NoEntry]
        ELSE [ok |-> TRUE,
              entry |-> [k \in Keys |->
                  IF \E i \in 1..Len(inner) :
                        inner[i] \in MemberTokens /\ k \in MemberKeys(inner[i])
                  THEN Present(MemberValue(
                          inner[CHOOSE i \in 1..Len(inner) :
                                  inner[i] \in MemberTokens /\ k \in MemberKeys(inner[i])],
                          k))
                  ELSE Absent]]

\* The position of the last token of the line before position i that is
\* not white space; 0 if there is none.
RECURSIVE LastSolid(_, _)
LastSolid(line, i) ==
    IF i <= 1 THEN 0
    ELSE IF line[i - 1] # " " THEN i - 1
    ELSE LastSolid(line, i - 1)

\* Mutant: the comma is removed only when it touches the brace.
Repair_Adjacent(line) ==
    LET n == Len(line)
    IN  IF n >= 2 /\ line[n] = "}" /\ line[n - 1] = ","
        THEN SubSeq(line, 1, n - 2) \o <<" ", "}">>
        ELSE line

\* line.replace(/,\s*\}$/, ' }'), line 237.
Repair(line) ==
    LET n == Len(line)
        j == LastSolid(line, n)
    IN  IF n >= 2 /\ line[n] = "}" /\ j >= 1 /\ line[j] = ","
        THEN SubSeq(line, 1, j - 1) \o <<" ", "}">>
        ELSE line

\* Mutant: only MESSAGE is defaulted.
Normalise_MessageOnly(entry) ==
    [entry EXCEPT !["MESSAGE"] = IF @.present THEN @ ELSE Present("")]

\* Lines 238-239.
Normalise(entry) ==
    [entry EXCEPT !["MESSAGE"] = IF @.present THEN @ ELSE Present(""),
                  !["_HOSTNAME"] = IF @.present THEN @ ELSE Present("")]

\* The try block of the line handler, lines 236-240: the record to emit,
\* or the exception.
DecodeLine(line) ==
    LET r == JSONParse(Repair(line))
    IN  IF r.ok THEN [ok |-> TRUE, entry |-> Normalise(r.entry)] ELSE r

VARIABLES
    procState,      \* "running" | "exited" | "spawnError": the ChildProcess as the handlers saw it
    exitCode,       \* the code the 'exit' handler received (NullCode before)
    killSent,       \* stop() has called journalCtl.kill()
    stdoutOpen,     \* the readline interface over journalCtl.stdout can still deliver lines
    nLines,         \* number of lines the line reader has delivered
    stdErrorText,   \* the standard-error text accumulated so far
    exitErrorMsg,   \* history: message of the Error the 'exit' handler made
    spawnErr,       \* history: the errno the 'error' handler received ("none" before)
    thrown,         \* history: cause of the error emit('error') threw ("none" before)
    options,        \* the constructor's first parameter
    outputFields,   \* the constructor's second parameter
    tz,             \* seconds the local time of the process is ahead of UTC
    args,           \* the argument list built so far
    ctorStep,       \* the statement the constructor is at, "done" after the last
    ctorThrew,      \* the statement at ctorStep has thrown
    rawLine,        \* the text of the line the line reader delivers
    message,        \* the record of the last 'message' signal
    msgThrows,      \* a 'message' subscriber that throws is attached
    inChunk,        \* the line reader is in the middle of a chunk of several lines
    userErr,        \* a subscriber of the integrator is attached to 'error'
    crashed,        \* emit('error') found no subscriber and threw out of a handler
    generatorInstanceExtists, \* the single-use flag of the instance
    genState,       \* per generator object: position of its body
    closure,        \* per generator object: totalEntries, messagePromises, resolve
    yielded,        \* per generator object: the records its draws returned, in order
    ret,            \* per generator object: totalEntries of its return value
    signals,        \* history: the signals delivered to subscribers, in order
    createAt,       \* history: Len(signals) when createGenerator() was called
    startAt         \* history: Len(signals) when the body subscribed

vars == <<procState, exitCode, killSent, stdoutOpen, nLines, inChunk, userErr, crashed,
          stdErrorText, exitErrorMsg, spawnErr, thrown,
          options, outputFields, tz, args, ctorStep, ctorThrew, rawLine, message, msgThrows,
          generatorInstanceExtists, genState, closure, yielded, ret,
          signals, createAt, startAt>>

procVars == <<procState, exitCode, killSent, stdoutOpen, nLines, inChunk>>
genVars == <<generatorInstanceExtists, genState, yielded, ret, createAt, startAt>>
errVars == <<stdErrorText, exitErrorMsg, spawnErr, thrown>>
ctorVars == <<options, outputFields, tz, args, ctorStep, ctorThrew>>
decVars == <<rawLine, message, msgThrows>>

\* ------------------------------------------------- generator closure
\* Lines 282-287: totalEntries = 0, messagePromises = [createPromise()].
\* promises lists every promise createPromise() made, oldest first; the
\* first `head` of them have been shifted out of messagePromises; `resolve`
\* always belongs to the newest one.
NewClosure == [totalEntries |-> 0, promises |-> <<PENDING>>, head |-> 0]

NoClosure == [totalEntries |-> 0, promises |-> <<>>, head |-> 0]

\* Calling a promise's resolver: settles it once, later calls are ignored.
Settle(ps, i, v) == IF ps[i] = PENDING THEN [ps EXCEPT ![i] = Resolved(v)] ELSE ps

\* Mutant: the error listener leaves the pending promise alone.
GenOnError_Ignore(c) == c

\* Lines 289-292: this.on('error', () => resolve(undefined)).
GenOnError(c) == [c EXCEPT !.promises = Settle(@, Len(@), UNDEF)]

\* Mutant: no queue; a record is handed over only when the body is waiting
\* for it on the newest promise, and is lost otherwise.
GenOnMessage_NoQueue(c, m) ==
    IF c.head = Len(c.promises)
    THEN [c EXCEPT !.promises = Append(Settle(@, Len(@), m), PENDING),
                   !.totalEntries = @ + 1]
    ELSE [c EXCEPT !.totalEntries = @ + 1]

\* Lines 292-297: oldResolve = resolve; push(createPromise());
\* totalEntries++; oldResolve(message).
GenOnMessage(c, m) ==
    [c EXCEPT !.promises = Append(Settle(@, Len(@), m), PENDING),
              !.totalEntries = @ + 1]

\* Mutant: the exit signal leaves the pending promise unsettled.
GenOnExit_Ignore(c) == c

\* Lines 297-299: .on('exit', () => resolve(undefined)).
GenOnExit(c) == [c EXCEPT !.promises = Settle(@, Len(@), UNDEF)]

\* Line 302: messagePromises.shift().
Shift(c) == [c EXCEPT !.head = @ + 1]

\* Line 302: the promise the body awaits, the one shifted last (shift() of
\* an empty array is undefined, and awaiting it produces undefined).
Awaited(c) == IF c.head >= 1 /\ c.head <= Len(c.promises)
              THEN c.promises[c.head] ELSE Resolved(UNDEF)

\* ------------------------------------------------- the emission channel
\* The generator bodies that have run lines 289-299 and so listen.
Subscribed(g) == genState[g] \in {"awaiting", "suspendedYield", "completed"}

\* EventEmitter.emit('error') throws when nobody listens to 'error'.
HasErrorListener == userErr \/ \E g \in Gens : Subscribed(g)

DeliverError(cl) ==
    [g \in Gens |-> IF Subscribed(g) THEN GenOnError(cl[g]) ELSE cl[g]]

DeliverMessage(cl, m) ==
    [g \in Gens |-> IF Subscribed(g) THEN GenOnMessage(cl[g], m) ELSE cl[g]]

DeliverExit(cl) ==
    [g \in Gens |-> IF Subscribed(g) THEN GenOnExit(cl[g]) ELSE cl[g]]

\* Line 217: new Error(this.stdErrorText ?? `Process exited with code ${code}`).
ExitErrorMessage(t, code) ==
    IF ~t.null
    THEN [from |-> "stderr", text |-> t.text, code |-> 0]
    ELSE [from |-> "generic", text |-> <<>>, code |-> code]

\* Mutant: a permission failure is reported as a missing executable.
SpawnErrorText_NoEacces(err) ==
    IF err \in {"ENOENT", "EACCES"} THEN NotFoundText ELSE err

\* Lines 223-229: the text of the error emitted for the spawn error `err`,
\* whose message is "spawn journalctl <errno>".
SpawnErrorText(err) ==
    IF err = "ENOENT" THEN NotFoundText
    ELSE IF err = "EACCES" THEN NotAccessibleText
    ELSE err

SigMessage(m) == [kind |-> "message", rec |-> m, cause |-> "line"]
SigError(why) == [kind |-> "error", rec |-> 0, cause |-> why]
SigExit == [kind |-> "exit", rec |-> 0, cause |-> "exit"]

\* ------------------------------------------------------- the event loop
\* A body whose awaited promise is settled resumes in a microtask.
MicrotaskPending ==
    \E g \in Gens : genState[g] = "awaiting" /\ Awaited(closure[g]).settled

\* A callback of the subprocess (exit, error, a chunk of standard output,
\* its end) starts only when the microtask queue is empty and no other
\* callback is running.
CanRunCallback == ~crashed /\ ~inChunk /\ ~MicrotaskPending

\* Code of the integrator (a call of the public API) and microtasks run
\* between callbacks, in any order.
CanRunJob == ~crashed /\ ~inChunk

\* ------------------------------------------------------------- initial
\* The fields and handlers the constructor sets up, lines 207-246, for a
\* subprocess in state ps.
Handlers(ps) ==
    /\ procState = ps
    /\ exitCode = NullCode
    /\ killSent = FALSE
    /\ stdoutOpen = TRUE
    /\ nLines = 0
    /\ stdErrorText = EmptyText
    /\ exitErrorMsg = NoMessage
    /\ spawnErr = "none"
    /\ thrown = "none"
    /\ inChunk = FALSE
    /\ userErr = FALSE
    /\ crashed = FALSE
    /\ generatorInstanceExtists = FALSE
    /\ genState = [g \in Gens |-> "none"]
    /\ closure = [g \in Gens |-> NoClosure]
    /\ yielded = [g \in Gens |-> <<>>]
    /\ ret = [g \in Gens |-> NullCode]
    /\ signals = <<>>
    /\ createAt = [g \in Gens |-> 0]
    /\ startAt = [g \in Gens |-> 0]

\* The state after new JournalCtl() has returned.
Init ==
    /\ Handlers("running")
    /\ options = DefaultOptions
    /\ outputFields = Undefined
    /\ tz = 0
    /\ args = DefaultArgs
    /\ ctorStep = "done"
    /\ ctorThrew = FALSE
    /\ rawLine = <<>>
    /\ message = NoEntry
    /\ msgThrows = FALSE

\* ------------------------------------------------------------- actions
\* journalCtl.on("exit", code => ...), lines 215-220.
ProcessExit(code) ==
    /\ CanRunCallback
    /\ procState = "running"
    /\ (code = NullCode => killSent)
    /\ procState' = "exited"
    /\ exitCode' = code
    /\ IF code \notin {0, NullCode}
       THEN /\ exitErrorMsg' = ExitErrorMessage(stdErrorText, code)
            /\ IF HasErrorListener
               THEN /\ signals' = signals \o <<SigError("exit"), SigExit>>
                    /\ closure' = DeliverExit(DeliverError(closure))
                    /\ crashed' = FALSE
                    /\ UNCHANGED thrown
               ELSE /\ crashed' = TRUE
                    /\ thrown' = "exit"
                    /\ UNCHANGED <<signals, closure>>
       ELSE /\ signals' = Append(signals, SigExit)
            /\ closure' = DeliverExit(closure)
            /\ crashed' = FALSE
            /\ UNCHANGED <<exitErrorMsg, thrown>>
    /\ UNCHANGED <<killSent, stdoutOpen, nLines, inChunk, userErr, genVars,
                   stdErrorText, spawnErr, ctorVars, decVars>>

\* journalCtl.on("error", err => ...), lines 222-230: the spawn failed.
SpawnError(err) ==
    /\ CanRunCallback
    /\ procState = "running"
    /\ nLines = 0
    /\ procState' = "spawnError"
    /\ stdoutOpen' = FALSE
    /\ spawnErr' = err
    /\ IF HasErrorListener
       THEN /\ signals' = Append(signals, SigError(SpawnErrorText(err)))
            /\ closure' = DeliverError(closure)
            /\ crashed' = FALSE
            /\ UNCHANGED thrown
       ELSE /\ crashed' = TRUE
            /\ thrown' = SpawnErrorText(err)
            /\ UNCHANGED <<signals, closure>>
    /\ UNCHANGED <<exitCode, killSent, nLines, inChunk, userErr, genVars,
                   stdErrorText, exitErrorMsg, ctorVars, decVars>>

\* lineReader.on('line', line => ...), lines 234-244.  `ok` says whether
\* the line decodes to a record; `more` whether the chunk read from the pipe
\* holds a further line, whose handler then runs before any microtask.
\* The ChildProcess 'exit' event does not wait for the stdio streams: lines
\* still buffered in the pipe are delivered while stdoutOpen, also after
\* ProcessExit.
LineEvent(ok, more) ==
    /\ ~crashed
    /\ inChunk \/ ~MicrotaskPending
    /\ stdoutOpen
    /\ nLines < MaxLines
    /\ more => nLines + 1 < MaxLines
    /\ nLines' = nLines + 1
    /\ LET \* emit('message') is reached; a throwing subscriber, first in
           \* the listener order, ends it before the other listeners run.
           emitted == IF ok THEN Append(signals, SigMessage(nLines + 1)) ELSE signals
           heard == IF ok /\ ~msgThrows
                    THEN DeliverMessage(closure, nLines + 1)
                    ELSE closure
           \* The catch block runs: JSON.parse threw, or the subscriber did.
           caught == ~ok \/ msgThrows
       IN  IF ~caught
           THEN /\ signals' = emitted
                /\ closure' = heard
                /\ crashed' = FALSE
                /\ inChunk' = more
                /\ UNCHANGED thrown
           ELSE IF HasErrorListener
                THEN /\ signals' = Append(emitted, SigError("decode"))
                     /\ closure' = DeliverError(heard)
                     /\ crashed' = FALSE
                     /\ inChunk' = more
                     /\ UNCHANGED thrown
                ELSE /\ crashed' = TRUE
                     /\ thrown' = "decode"
                     /\ inChunk' = FALSE
                     /\ signals' = emitted
                     /\ UNCHANGED closure
    /\ UNCHANGED <<procState, exitCode, killSent, stdoutOpen, userErr, genVars,
                   stdErrorText, exitErrorMsg, spawnErr, ctorVars>>

\* End of the subprocess's standard output (after the process has gone).
StdoutClose ==
    /\ CanRunCallback
    /\ stdoutOpen
    /\ procState = "exited"
    /\ stdoutOpen' = FALSE
    /\ UNCHANGED <<procState, exitCode, killSent, nLines, inChunk, userErr, crashed,
                   closure, signals, genVars, errVars, ctorVars, decVars>>

\* journalCtl.stderr.on('data', chunk => ...), lines 211-213.  Like the
\* standard output, the standard error can deliver data after ProcessExit.
StderrData ==
    /\ CanRunCallback
    /\ stdoutOpen
    /\ Len(stdErrorText.text) < MaxErrChunks
    /\ stdErrorText' = [stdErrorText EXCEPT !.text = Append(@, Len(@) + 1)]
    /\ UNCHANGED <<procVars, userErr, crashed, closure, signals, genVars,
                   exitErrorMsg, spawnErr, thrown, ctorVars, decVars>>

\* stop(), lines 312-314: journalCtl.kill().
Stop ==
    /\ CanRunJob
    /\ procState = "running"
    /\ ~killSent
    /\ killSent' = TRUE
    /\ UNCHANGED <<procState, exitCode, stdoutOpen, nLines, inChunk, userErr, crashed,
                   closure, signals, genVars, errVars, ctorVars, decVars>>

\* on('error', callBack), lines 266-269, called by the integrator.
OnError ==
    /\ CanRunJob
    /\ ~userErr
    /\ userErr' = TRUE
    /\ UNCHANGED <<procVars, crashed, closure, signals, genVars, errVars, ctorVars, decVars>>

\* on('message', callBack), lines 266-269, with a callBack that throws,
\* called before any pull sequence has subscribed.
OnMessageThrowing ==
    /\ CanRunJob
    /\ ~msgThrows
    /\ \A g \in Gens : ~Subscribed(g)
    /\ msgThrows' = TRUE
    /\ UNCHANGED <<procVars, userErr, crashed, closure, signals, genVars, errVars,
                   ctorVars, rawLine, message>>

\* createGenerator(), line 275: an async generator function.  The call
\* only makes the generator object; no statement of the body runs.
CreateGenerator(g) ==
    /\ CanRunJob
    /\ genState[g] = "none"
    /\ \A h \in Gens : h < g => genState[h] # "none"
    /\ genState' = [genState EXCEPT ![g] = "suspendedStart"]
    /\ createAt' = [createAt EXCEPT ![g] = Len(signals)]
    /\ UNCHANGED <<procVars, userErr, crashed, generatorInstanceExtists,
                   closure, yielded, ret, signals, startAt, errVars, ctorVars, decVars>>

\* The body from its start to the first await, lines 276-302.
StartBody(g) ==
    IF generatorInstanceExtists
    THEN /\ genState' = [genState EXCEPT ![g] = "threw"]
         /\ UNCHANGED <<generatorInstanceExtists, closure, startAt>>
    ELSE /\ generatorInstanceExtists' = TRUE
         /\ closure' = [closure EXCEPT ![g] = Shift(NewClosure)]
         /\ startAt' = [startAt EXCEPT ![g] = Len(signals)]
         /\ genState' = [genState EXCEPT ![g] = "awaiting"]

\* The body from a yield to the next await, lines 302-304.
ContinueBody(g) ==
    /\ closure' = [closure EXCEPT ![g] = Shift(@)]
    /\ genState' = [genState EXCEPT ![g] = "awaiting"]
    /\ UNCHANGED <<generatorInstanceExtists, startAt>>

\* generator.next() by a consumer that awaits each draw before the next.
Draw(g) ==
    /\ CanRunJob
    /\ genState[g] \in {"suspendedStart", "suspendedYield"}
    /\ IF genState[g] = "suspendedStart" THEN StartBody(g) ELSE ContinueBody(g)
    /\ UNCHANGED <<procVars, userErr, crashed, yielded, ret, signals, createAt, errVars, ctorVars, decVars>>

\* The awaited promise is settled: the body resumes, lines 302-305.
GenResume(g) ==
    /\ CanRunJob
    /\ genState[g] = "awaiting"
    /\ Awaited(closure[g]).settled
    /\ IF Awaited(closure[g]).value = UNDEF
       THEN /\ genState' = [genState EXCEPT ![g] = "completed"]
            /\ ret' = [ret EXCEPT ![g] = closure[g].totalEntries]
            /\ UNCHANGED yielded
       ELSE /\ genState' = [genState EXCEPT ![g] = "suspendedYield"]
            /\ yielded' = [yielded EXCEPT ![g] = Append(@, Awaited(closure[g]).value)]
            /\ UNCHANGED ret
    /\ UNCHANGED <<procVars, userErr, crashed, generatorInstanceExtists,
                   closure, signals, createAt, startAt, errVars, ctorVars, decVars>>

Next ==
    \/ \E code \in ExitCodes : ProcessExit(code)
    \/ \E err \in SpawnErrors : SpawnError(err)
    \/ \E ok \in BOOLEAN, more \in BOOLEAN : LineEvent(ok, more) /\ UNCHANGED decVars
    \/ StdoutClose
    \/ Stop
    \/ OnError
    \/ \E g \in Gens : CreateGenerator(g)
    \/ \E g \in Gens : Draw(g)
    \/ \E g \in Gens : GenResume(g)

Spec == Init /\ [][Next]_vars

\* The process supervisor and the line reader alone, with standard-error
\* output, on an instance no pull sequence is made of.
SupNext ==
    \/ StderrData
    \/ \E code \in ExitCodes : ProcessExit(code)
    \/ \E err \in SpawnErrors : SpawnError(err)
    \/ \E ok \in BOOLEAN, more \in BOOLEAN : LineEvent(ok, more) /\ UNCHANGED decVars
    \/ StdoutClose
    \/ Stop
    \/ OnError

SupSpec == Init /\ [][SupNext]_vars

\* ------------------------------------------------------------ histories
IsStop(s) == s.kind \in {"error", "exit"}

\* Index of the first error or exit signal delivered after position `from`
\* of the history (Len(signals) + 1 when there is none yet).
FirstStopAfter(from) ==
    LET S == {i \in (from + 1)..Len(signals) : IsStop(signals[i])}
    IN  IF S = {} THEN Len(signals) + 1
        ELSE CHOOSE i \in S : \A j \in S : i <= j

StopSeen(from) == FirstStopAfter(from) <= Len(signals)

\* The records of the 'message' signals delivered after position `from`
\* and before the first error or exit signal that followed it, in order.
Expected(from) ==
    LET ms == SelectSeq(SubSeq(signals, from + 1, FirstStopAfter(from) - 1),
                        LAMBDA s : s.kind = "message")
    IN  [i \in 1..Len(ms) |-> ms[i].rec]

IsPrefix(a, b) == Len(a) <= Len(b) /\ SubSeq(b, 1, Len(a)) = a

Created(g) == genState[g] # "none"

\* The records emitted after createGenerator() was called on g and before
\* any error or exit signal of the instance.
ExpectedSinceCreate(g) ==
    IF FirstStopAfter(0) <= createAt[g] THEN <<>> ELSE Expected(createAt[g])

\* --------------------------------------------------------------- claims

\* C1: at most one pull sequence is ever created per instance: the second
\* createGenerator() call fails at the call, so no second generator object
\* exists beside the first.
C1_AtMostOneCreated == Cardinality({g \in Gens : Created(g)}) <= 1

\* C2: the pull sequence created first is never disturbed by a second
\* creation: none of its draws is rejected.
C2_FirstUndisturbed == genState[1] # "threw"

\* C3: the records a started pull sequence has yielded are always the first
\* of the records of the 'message' signals fired since it started and before
\* the first error or exit signal, in arrival order and without repetition;
\* when it completes they are exactly those records.
C3_PullMatchesPush ==
    \A g \in Gens : Subscribed(g) =>
        /\ IsPrefix(yielded[g], Expected(startAt[g]))
        /\ genState[g] = "completed" => yielded[g] = Expected(startAt[g])

C3_Witness ==
    \E g \in Gens : genState[g] = "completed" /\ yielded[g] = <<1, 2>>

\* C4: no record is dropped: when the pull sequence completes, every record
\* emitted as a 'message' signal after createGenerator() was called, and
\* before any error or exit signal, has been yielded.
C4_NoRecordDropped ==
    \A g \in Gens : genState[g] = "completed" =>
        \A i \in 1..Len(ExpectedSinceCreate(g)) :
            \E j \in 1..Len(yielded[g]) : yielded[g][j] = ExpectedSinceCreate(g)[i]

\* C5: the totalEntries of the return value is the number of records the
\* sequence yielded.
C5_TotalEntriesIsYielded ==
    \A g \in Gens : genState[g] = "completed" => ret[g] = Len(yielded[g])

\* C6: once a started pull sequence has observed an error or exit signal, it
\* yields the records queued before the signal (each awaited slot holds the
\* next of them), then its awaited slot holds `undefined` and it completes
\* with a return value; it never yields a record that arrived after the
\* signal, and no draw of it is rejected.
C6_StopDrainsThenCompletes ==
    \A g \in Gens : (Subscribed(g) /\ StopSeen(startAt[g])) =>
        LET exp == Expected(startAt[g])
            n == Len(yielded[g])
        IN  /\ n <= Len(exp)
            /\ genState[g] # "threw"
            /\ (genState[g] = "awaiting" /\ n < Len(exp)) =>
                   Awaited(closure[g]) = Resolved(exp[n + 1])
            /\ (genState[g] = "awaiting" /\ n = Len(exp)) =>
                   Awaited(closure[g]) = Resolved(UNDEF)
            /\ genState[g] = "completed" => (n = Len(exp) /\ ret[g] >= 0)

\* An abnormal exit is observed after one record was queued, the sequence
\* has drained and completed, and a later line produced a further message.
C6_Witness ==
    \E g \in Gens :
        /\ genState[g] = "completed"
        /\ yielded[g] = <<1>>
        /\ StopSeen(startAt[g])
        /\ signals[FirstStopAfter(startAt[g])].kind = "error"
        /\ signals[Len(signals)] = SigMessage(2)

\* C7: no draw stays pending for ever after the subprocess has exited: once
\* the exit handler has run and the standard output has ended (no further
\* signal can be emitted), a pull sequence that was created before the exit
\* signal and whose consumer has drawn is not waiting on a promise that is
\* still unsettled.
C7_NoDrawPendingAfterExit ==
    \A g \in Gens :
        ( /\ procState = "exited" /\ ~stdoutOpen /\ ~crashed
          /\ genState[g] = "awaiting"
          /\ \E i \in (createAt[g] + 1)..Len(signals) : signals[i].kind = "exit" )
            => Awaited(closure[g]).settled

\* C8: a pull sequence completes only when the subprocess has terminated.
C8_EndsOnlyOnTermination ==
    \A g \in Gens : genState[g] = "completed" => procState # "running"

\* C9: once the exit handler has run for a non-zero code, exactly one
\* abnormal-exit 'error' signal was emitted, directly followed by the one
\* 'exit' signal; for code 0 the one 'exit' signal and no such 'error'.
C9_ErrorThenExit ==
    (procState = "exited" /\ exitCode \in {0, 1}) =>
        LET errs == {i \in 1..Len(signals) : signals[i] = SigError("exit")}
            exits == {i \in 1..Len(signals) : signals[i].kind = "exit"}
        IN  /\ Cardinality(exits) = 1
            /\ IF exitCode = 1
               THEN Cardinality(errs) = 1 /\ \A i \in errs : i + 1 \in exits
               ELSE errs = {}

\* C10: 'exit' is the terminal signal: no signal follows it.
C10_ExitIsTerminal ==
    \A i \in 1..Len(signals) : signals[i].kind = "exit" => i = Len(signals)

(***************************************************************************)
(* The constructor, statement by statement, on every sample configuration. *)
(***************************************************************************)
CtorInit ==
    /\ Handlers("unspawned")
    /\ options \in [until : UntilValues, since : SinceValues, all : AllValues,
                    lines : LinesValues, priority : PriorityValues,
                    identifier : IdentifierValues, unit : UnitValues,
                    filter : FilterValues]
    /\ outputFields \in OutputFieldsValues
    /\ tz \in TimeZones
    /\ args = InitialArgs
    /\ ctorStep = "until"
    /\ ctorThrew = FALSE
    /\ rawLine = <<>>
    /\ message = NoEntry
    /\ msgThrows = FALSE

\* A statement with the outcome r, followed by the statement `next`: a
\* throw leaves the constructor at the statement.
CtorRun(next, r) ==
    /\ args' = r.args
    /\ ctorThrew' = r.threw
    /\ ctorStep' = IF r.threw THEN ctorStep ELSE next
    /\ UNCHANGED <<procVars, userErr, crashed, closure, signals, genVars, errVars,
                   options, outputFields, tz, decVars>>

\* Lines 158-164.
CtorUntil ==
    /\ ctorStep = "until"
    /\ ~ctorThrew
    /\ CtorRun("all", PushUntil(options, tz, args))

\* Line 165.
CtorAll ==
    /\ ctorStep = "all"
    /\ ~ctorThrew
    /\ CtorRun("lines", PushAll(options, args))

\* Lines 167-171.
CtorLines ==
    /\ ctorStep = "lines"
    /\ ~ctorThrew
    /\ CtorRun("since", PushLines(options, args))

\* Lines 172-175.
CtorSince ==
    /\ ctorStep = "since"
    /\ ~ctorThrew
    /\ CtorRun("order", PushSince(options, tz, args))

\* Lines 176-180.
CtorOrder ==
    /\ ctorStep = "order"
    /\ ~ctorThrew
    /\ CtorRun("priority", CheckOrder(options, tz, args))

\* Lines 181-188.
CtorPriority ==
    /\ ctorStep = "priority"
    /\ ~ctorThrew
    /\ CtorRun("identifier", PushPriority(options, args))

\* Line 189.
CtorIdentifier ==
    /\ ctorStep = "identifier"
    /\ ~ctorThrew
    /\ CtorRun("unit", PushIdentifier(options, args))

\* Line 190.
CtorUnit ==
    /\ ctorStep = "unit"
    /\ ~ctorThrew
    /\ CtorRun("filter", PushUnit(options, args))

\* Lines 191-195.
CtorFilter ==
    /\ ctorStep = "filter"
    /\ ~ctorThrew
    /\ CtorRun("outputFields", PushFilter(options, args))

\* Lines 196-203.
CtorOutputFields ==
    /\ ctorStep = "outputFields"
    /\ ~ctorThrew
    /\ CtorRun("spawn", PushOutputFields(outputFields, args))

\* childProcess.spawn('journalctl', args) and the handlers, lines 207-246.
CtorSpawn ==
    /\ ctorStep = "spawn"
    /\ ~ctorThrew
    /\ procState = "unspawned"
    /\ procState' = "running"
    /\ ctorStep' = "done"
    /\ UNCHANGED <<exitCode, killSent, stdoutOpen, nLines, inChunk, userErr, crashed,
                   closure, signals, genVars, errVars, options, outputFields, tz, args,
                   ctorThrew, decVars>>

CtorNext ==
    \/ CtorUntil
    \/ CtorAll
    \/ CtorLines
    \/ CtorSince
    \/ CtorOrder
    \/ CtorPriority
    \/ CtorIdentifier
    \/ CtorUnit
    \/ CtorFilter
    \/ CtorOutputFields
    \/ CtorSpawn

CtorSpec == CtorInit /\ [][CtorNext]_vars

(***************************************************************************)
(* The line handler on one line of every text of at most MaxTokens tokens. *)
(***************************************************************************)
Lines == UNION {[1..n -> LineTokens] : n \in 0..MaxTokens}

DecodeInit ==
    /\ Handlers("running")
    /\ options = DefaultOptions
    /\ outputFields = Undefined
    /\ tz = 0
    /\ args = DefaultArgs
    /\ ctorStep = "done"
    /\ ctorThrew = FALSE
    /\ rawLine \in Lines
    /\ message = NoEntry
    /\ msgThrows = FALSE

\* lineReader.on('line'), lines 234-244, on the line rawLine.
OnLine ==
    /\ nLines = 0
    /\ LET r == DecodeLine(rawLine)
       IN  /\ LineEvent(r.ok, FALSE)
           /\ message' = IF r.ok THEN r.entry ELSE message
    /\ UNCHANGED <<rawLine, msgThrows>>

DecodeNext ==
    \/ OnLine
    \/ OnError
    \/ OnMessageThrowing

DecodeSpec == DecodeInit /\ [][DecodeNext]_vars

\* The line has been handled and a 'message' signal was emitted for it.
Delivered == nLines = 1 /\ \E i \in 1..Len(signals) : signals[i] = SigMessage(1)

\* The line writes the property k, and the value it writes.
SourceHas(k) ==
    \E i \in 1..Len(rawLine) : rawLine[i] \in MemberTokens /\ k \in MemberKeys(rawLine[i])
SourceValue(k) ==
    LET i == CHOOSE i \in 1..Len(rawLine) :
                 rawLine[i] \in MemberTokens /\ k \in MemberKeys(rawLine[i])
    IN  MemberValue(rawLine[i], k)

\* C17: every delivered record of a line that carries the address fields
\* has the six guaranteed keys, SYSLOG_IDENTIFIER being the empty string
\* when the line omitted it.
C17_SixGuaranteedKeys ==
    (Delivered /\ \A k \in AddressKeys : SourceHas(k)) =>
        /\ \A k \in AddressKeys \cup {"MESSAGE", "SYSLOG_IDENTIFIER"} : message[k].present
        /\ ~SourceHas("SYSLOG_IDENTIFIER") => message["SYSLOG_IDENTIFIER"] = Present("")

\* C18: every delivered record has MESSAGE and _HOSTNAME: the value of the
\* line when the line has the field, the empty string when it has not.
C18_MessageAndHostnameDefaulted ==
    Delivered =>
        \A k \in {"MESSAGE", "_HOSTNAME"} :
            message[k] = IF SourceHas(k) THEN Present(SourceValue(k)) ELSE Present("")

\* A line with MESSAGE but without _HOSTNAME was delivered.
C18_Witness ==
    /\ Delivered
    /\ SourceHas("MESSAGE")
    /\ ~SourceHas("_HOSTNAME")
    /\ message["MESSAGE"] = Present("hello")
    /\ message["_HOSTNAME"] = Present("")

\* The position of the last closing brace of the line; 0 if it has none.
RECURSIVE FinalBrace(_, _)
FinalBrace(line, i) ==
    IF i = 0 THEN 0
    ELSE IF line[i] = "}" THEN i
    ELSE FinalBrace(line, i - 1)
\* The position of a comma that, white space apart, stands immediately
\* before the final closing brace; 0 if there is none.
StrayComma(line) ==
    LET b == FinalBrace(line, Len(line))
        j == IF b = 0 THEN 0 ELSE LastSolid(line, b)
    IN  IF j >= 1 /\ line[j] = "," THEN j ELSE 0
\* The line with that comma removed.
WithoutComma(line) ==
    LET j == StrayComma(line)
    IN  SubSeq(line, 1, j - 1) \o SubSeq(line, j + 1, Len(line))
\* The line is a valid JSON object but for that comma.
Defective(line) ==
    StrayComma(line) # 0 /\ JSONParse(WithoutComma(line)).ok

\* What the handler has done with the line is what decoding `text` gives.
HandledAs(text) ==
    /\ Delivered <=> JSONParse(text).ok
    /\ Delivered => message = Normalise(JSONParse(text).entry)

\* C19 as stated: every line that is a valid JSON object but for one stray
\* comma before its final closing brace is delivered as the line without
\* the comma is; every other line is parsed unchanged.
C19_TrailingCommaRepaired ==
    nLines = 1 =>
        IF Defective(rawLine)
        THEN Delivered /\ HandledAs(WithoutComma(rawLine))
        ELSE HandledAs(rawLine)

\* C19, amended: the same for the lines whose final closing brace is the
\* last character of the line; a line with white space after the brace is
\* parsed unchanged like every other line.
C19_RepairedWhenBraceLast ==
    nLines = 1 =>
        IF Defective(rawLine) /\ rawLine[Len(rawLine)] = "}"
        THEN Delivered /\ HandledAs(WithoutComma(rawLine))
        ELSE HandledAs(rawLine)

\* The line { "MESSAGE":"hello", } was delivered.
C19_Witness ==
    /\ rawLine = <<"{", "M", ",", " ", "}">>
    /\ Delivered
    /\ message["MESSAGE"] = Present("hello")

(***************************************************************************)
(* The constructor on configurations with one parameter set, taken from    *)
(* all short texts, a range of numbers, or all short output-field lists.   *)
(***************************************************************************)
\* A letter of each case, a digit, the underscore, two white-space
\* characters, the further characters of unit names, and one of no class.
SampleChars == {"A", "a", "0", "_", " ", "\t", "-", ".", ":", "\\", "|"}
SampleTexts == UNION {[1..n -> SampleChars] : n \in 0..MaxChars}
SampleNumbers ==
    {IntValue(n) : n \in -1..8} \cup {FracValue(1), FracValue(-1), NaNValue}
SampleFieldLists ==
    UNION {[1..n -> {MESSAGE, SYSLOG_IDENTIFIER, HOSTNAME, <<"P", "R", "I", "O", "R", "I", "T", "Y">>}] : n \in 0..MaxFields}

OneOption ==
    {[DefaultOptions EXCEPT !.filter =
          [kind |-> "object", entries |-> <<[key |-> t, value |-> <<"3">>]>>]] :
       t \in SampleTexts}
    \cup {[DefaultOptions EXCEPT !.identifier = StringValue(t)] : t \in SampleTexts}
    \cup {[DefaultOptions EXCEPT !.unit = StringValue(t)] : t \in SampleTexts}
    \cup {[DefaultOptions EXCEPT !.lines = v] : v \in SampleNumbers}
    \cup {[DefaultOptions EXCEPT !.priority = v] : v \in SampleNumbers}
    \cup {[DefaultOptions EXCEPT !.priority = RangeValue(v, w)] :
            v \in SampleNumbers, w \in SampleNumbers}

OptionInit ==
    /\ Handlers("unspawned")
    /\ \/ options \in OneOption /\ outputFields = Undefined
       \/ /\ options = DefaultOptions
          /\ outputFields \in
                {[kind |-> "array", items |-> l] : l \in SampleFieldLists}
                \cup {[kind |-> "array", items |-> <<t>>] : t \in SampleTexts}
    /\ tz = 0
    /\ args = InitialArgs
    /\ ctorStep = "until"
    /\ ctorThrew = FALSE
    /\ rawLine = <<>>
    /\ message = NoEntry
    /\ msgThrows = FALSE

OptionSpec == OptionInit /\ [][CtorNext]_vars

\* The constructor's statements in program order, and "the statement st
\* has been completed".
CtorSteps ==
    <<"until", "all", "lines", "since", "order", "priority", "identifier",
      "unit", "filter", "outputFields", "spawn", "done">>
StepNo(st) == CHOOSE i \in 1..Len(CtorSteps) : CtorSteps[i] = st
Past(st) == StepNo(ctorStep) > StepNo(st)

\* A date option that will not do: a text of the wrong shape or of no
\* date, or the invalid Date object.
BadDate(v) ==
    IF v.kind = "string"
    THEN ~RegExp_DateString(v.chars) \/ ParseDate(v.chars, tz).nan
    ELSE v.nan
BadInteger(v) == v.kind # "number" \/ ~v.int \/ v.n < 0
BadPriority(v) ==
    IF v.kind = "range"
    THEN \E b \in {v.from, v.to} : BadInteger(b) \/ b.n > MaxPriority
    ELSE BadInteger(v) \/ v.n > MaxPriority

\* The validations of the statements completed so far have all passed.
PassedValid ==
    /\ (Past("until") /\ Truthy(options.until)) => ~BadDate(options.until)
    /\ (Past("lines") /\ options.lines # Undefined) => ~BadInteger(options.lines)
    /\ (Past("since") /\ Truthy(options.since)) => ~BadDate(options.since)
    /\ (Past("order") /\ Truthy(options.since) /\ Truthy(options.until)) =>
          ~SinceAfterUntil(AsDate(options.since, tz), AsDate(options.until, tz))
    /\ (Past("priority") /\ options.priority # Undefined) =>
          ~BadPriority(options.priority)
    /\ (Past("identifier") /\ options.identifier # Undefined) =>
          RegExp_SyslogIdentifier(options.identifier.chars)
    /\ (Past("unit") /\ Truthy(options.unit)) =>
          RegExp_Systemd_Unit_Name(options.unit.chars)
    /\ (Past("filter") /\ Truthy(options.filter)) =>
          \A i \in 1..Len(options.filter.entries) :
              RegExp_ValidFieldName(options.filter.entries[i].key)
    /\ (Past("outputFields") /\ Truthy(outputFields)) =>
          \A i \in 1..Len(outputFields.items) :
              RegExp_ValidFieldName(outputFields.items[i])

\* C14: a configuration error is thrown by the constructor before any
\* subprocess exists and without any signal: no statement is completed
\* whose validation fails, and a subprocess exists only when every
\* statement before the spawn has been completed.
C14_ConfigErrorsBeforeSpawn ==
    /\ ctorThrew => procState = "unspawned" /\ signals = <<>>
    /\ PassedValid
    /\ procState # "unspawned" => ~ctorThrew /\ ctorStep = "done" /\ signals = <<>>

\* The last validation, of the second output field, failed after the
\* options passed theirs and one output field was pushed.
C14_Witness ==
    /\ ctorThrew
    /\ ctorStep = "outputFields"
    /\ Truthy(options.unit)
    /\ Truthy(options.filter)
    /\ options.priority # Undefined
    /\ args[Len(args) - 1] = <<"-", "-", "o", "u", "t", "p", "u", "t", "-", "f", "i", "e", "l", "d">>
    /\ procState = "unspawned"

\* The instant a date option means: a text is a local time, with or
\* without its time of day; a Date object is an instant.
Instant(v) ==
    IF v.kind = "string" THEN ParseDate(v.chars, 0).time - tz ELSE v.time

\* C15: with both 'since' and 'until' set and valid, construction fails at
\* the order check, before any spawn, when since is later than until, and
\* does not fail at the order check when since is earlier or equal.
C15_SinceUntilOrder ==
    (/\ Truthy(options.since)
     /\ Truthy(options.until)
     /\ ~BadDate(options.since)
     /\ ~BadDate(options.until))
    => /\ Instant(options.since) > Instant(options.until) => ~Past("order")
       /\ Instant(options.since) <= Instant(options.until) =>
              ~(ctorThrew /\ ctorStep = "order")

\* The option tokens of an argument list, as the subprocess reads it: the
\* token after an option that takes a value is that value.
ValueOptions ==
    {<<"-", "o">>, <<"-", "U">>, <<"-", "n">>, <<"-", "S">>, <<"-", "p">>, <<"-", "t">>, <<"-", "u">>, <<"-", "-", "o", "u", "t", "p", "u", "t", "-", "f", "i", "e", "l", "d">>}
RECURSIVE OptionTokens(_)
OptionTokens(a) ==
    IF a = <<>> THEN {}
    ELSE IF a[1] \in ValueOptions /\ Len(a) >= 2
    THEN {a[1]} \cup OptionTokens(SubSeq(a, 3, Len(a)))
    ELSE {a[1]} \cup OptionTokens(Tail(a))

\* C20: once the first statement is done, the arguments have '-U <until>'
\* and no '-f' if 'until' is set, and '-f' and no '-U' if it is not.
C20_FollowXorUntil ==
    (Past("until") /\ ~ctorThrew) =>
        IF options.until # Undefined
        THEN /\ args[3] = <<"-", "U">>
             /\ <<"-", "f">> \notin OptionTokens(args)
        ELSE /\ <<"-", "f">> \in OptionTokens(args)
             /\ <<"-", "U">> \notin OptionTokens(args)

\* The argument list has the option `opt` with the value `val`.
RECURSIVE HasOption(_, _, _)
HasOption(a, opt, val) ==
    IF Len(a) < 2 THEN FALSE
    ELSE IF a[1] \in ValueOptions
    THEN (a[1] = opt /\ a[2] = val) \/ HasOption(SubSeq(a, 3, Len(a)), opt, val)
    ELSE HasOption(Tail(a), opt, val)

\* C21: once the line-count statement is done, the arguments have '-n 10'
\* when none of since, until and lines is given, '-n <lines>' when lines is
\* given, and no '-n' when since or until is given without lines.
C21_LineCountRule ==
    Past("lines") =>
        IF options.lines # Undefined
        THEN HasOption(args, <<"-", "n">>, NumStr(options.lines.n))
        ELSE IF options.since = Undefined /\ options.until = Undefined
        THEN HasOption(args, <<"-", "n">>, NumStr(DefaultLines))
        ELSE <<"-", "n">> \notin OptionTokens(args)

\* The values of the option `opt` in an argument list, in order.
RECURSIVE OptionValues(_, _)
OptionValues(a, opt) ==
    IF Len(a) < 2 THEN <<>>
    ELSE IF a[1] \in ValueOptions
    THEN (IF a[1] = opt THEN <<a[2]>> ELSE <<>>) \o OptionValues(SubSeq(a, 3, Len(a)), opt)
    ELSE OptionValues(Tail(a), opt)

\* The names of `forced` that the list `items` lacks, in the order of `forced`.
RECURSIVE Lacking(_, _)
Lacking(forced, items) ==
    IF forced = <<>> THEN <<>>
    ELSE (IF \E i \in 1..Len(items) : items[i] = forced[1] THEN <<>> ELSE <<forced[1]>>)
         \o Lacking(Tail(forced), items)

\* C22: once the output-field statement is done, the arguments request the
\* fields of a supplied list in list order, followed by those of MESSAGE,
\* SYSLOG_IDENTIFIER and _HOSTNAME that the list lacks; without a list they
\* request no field.
C22_OutputFieldsRequested ==
    Past("outputFields") =>
        OptionValues(args, <<"-", "-", "o", "u", "t", "p", "u", "t", "-", "f", "i", "e", "l", "d">>) =
            IF outputFields = Undefined THEN <<>>
            ELSE outputFields.items
                 \o Lacking(<<MESSAGE, SYSLOG_IDENTIFIER, HOSTNAME>>, outputFields.items)

\* The list [_HOSTNAME, MESSAGE] was supplied: SYSLOG_IDENTIFIER alone is added.
C22_Witness ==
    /\ ctorStep = "done"
    /\ outputFields = [kind |-> "array", items |-> <<HOSTNAME, MESSAGE>>]
    /\ OptionValues(args, <<"-", "-", "o", "u", "t", "p", "u", "t", "-", "f", "i", "e", "l", "d">>) = <<HOSTNAME, MESSAGE, SYSLOG_IDENTIFIER>>

\* The text is a non-empty sequence of A-Z, 0-9 and the underscore.
IsFieldName(t) ==
    /\ t # <<>>
    /\ \A i \in 1..Len(t) :
          \/ t[i] \in UpperCase
          \/ t[i] \in Digits
          \/ t[i] = "_"

\* The filter keys and the output fields of the configuration.
FilterKeys ==
    IF options.filter = Undefined THEN {}
    ELSE {options.filter.entries[i].key : i \in 1..Len(options.filter.entries)}
FieldNames ==
    IF outputFields = Undefined THEN {}
    ELSE {outputFields.items[i] : i \in 1..Len(outputFields.items)}

\* C23: a filter key or output field that is not a field name makes the
\* constructor throw at its statement, before any spawn; one that is a
\* field name does not, and it is passed on unchanged.
C23_FieldNameValidation ==
    /\ \A k \in FilterKeys :
          IF IsFieldName(k)
          THEN /\ ~(ctorThrew /\ ctorStep = "filter")
               /\ Past("filter") => k \o <<"=", "3">> \in OptionTokens(args)
          ELSE ~Past("filter") /\ procState = "unspawned"
    /\ \A f \in FieldNames :
          IF \A g \in FieldNames : IsFieldName(g)
          THEN /\ ~(ctorThrew /\ ctorStep = "outputFields")
               /\ Past("outputFields") => HasOption(args, <<"-", "-", "o", "u", "t", "p", "u", "t", "-", "f", "i", "e", "l", "d">>, f)
          ELSE ~Past("outputFields") /\ procState = "unspawned"

\* A lower-case filter key has made the constructor throw.
C23_Witness ==
    /\ ctorThrew
    /\ ctorStep = "filter"
    /\ FilterKeys = {<<"a", "0">>}

C25_StringFilterValidation ==
    /\ options.identifier # Undefined =>
          LET t == options.identifier.chars
          IN  IF t = <<>> \/ \E i \in 1..Len(t) : t[i] \in WhiteSpace
              THEN ~Past("identifier") /\ procState = "unspawned"
              ELSE /\ ~ctorThrew
                   /\ Past("identifier") => HasOption(args, <<"-", "t">>, t)
    /\ options.unit # Undefined =>
          LET t == options.unit.chars
              allowed == UpperCase \cup LowerCase \cup Digits \cup {":", "-", "_", ".", "\\"}
          IN  IF \E i \in 1..Len(t) : t[i] \notin allowed
              THEN ~Past("unit") /\ procState = "unspawned"
              ELSE t # <<>> =>
                      /\ ~ctorThrew
                      /\ Past("unit") => HasOption(args, <<"-", "u">>, t)

\* The unit "a." was passed on and the subprocess spawned.
C25_Witness ==
    /\ ctorStep = "done"
    /\ options.unit = StringValue(<<"a", ".">>)
    /\ HasOption(args, <<"-", "u">>, <<"a", ".">>)

\* The place of an option token in the order of the groups.
GroupRank(tok) ==
    CASE tok = <<"-", "o">> -> 1
      [] tok \in {<<"-", "U">>, <<"-", "f">>} -> 2
      [] tok = <<"-", "a">> -> 3
      [] tok = <<"-", "n">> -> 4
      [] tok = <<"-", "S">> -> 5
      [] tok = <<"-", "p">> -> 6
      [] tok = <<"-", "t">> -> 7
      [] tok = <<"-", "u">> -> 8
      [] tok = <<"-", "-", "o", "u", "t", "p", "u", "t", "-", "f", "i", "e", "l", "d">> -> 10
      [] OTHER -> 9
\* The ranks of the option tokens of an argument list, in order.
RECURSIVE Ranks(_)
Ranks(a) ==
    IF a = <<>> THEN <<>>
    ELSE IF a[1] \in ValueOptions /\ Len(a) >= 2
    THEN <<GroupRank(a[1])>> \o Ranks(SubSeq(a, 3, Len(a)))
    ELSE <<GroupRank(a[1])>> \o Ranks(Tail(a))

\* The arguments the statements build from a configuration, whatever the
\* time zone of the process.
BuiltArgs(o, of) ==
    LET a1 == PushUntil(o, 0, InitialArgs).args
        a2 == PushAll(o, a1).args
        a3 == PushLines(o, a2).args
        a4 == PushSince(o, 0, a3).args
        a5 == PushPriority(o, a4).args
        a6 == PushIdentifier(o, a5).args
        a7 == PushUnit(o, a6).args
        a8 == PushFilter(o, a7).args
    IN  PushOutputFields(of, a8).args

\* C26: the arguments of a completed construction are a function of the
\* options and the output-field list alone, and their groups stand in the
\* order -o json, -U or -f, -a, -n, -S, -p, -t, -u, filters, output fields.
C26_ArgsOrderedAndDetermined ==
    Past("outputFields") =>
        LET r == Ranks(args)
        IN  /\ args = BuiltArgs(options, outputFields)
            /\ SubSeq(args, 1, 2) = InitialArgs
            /\ r[1] = 1 /\ r[2] = 2
            /\ \A i \in 1..(Len(r) - 1) : r[i] <= r[i + 1]
            /\ \A i \in 1..(Len(r) - 1) : r[i] = r[i + 1] => r[i] \in {9, 10}

\* A construction with an option of every group has completed.
C26_Witness ==
    /\ ctorStep = "done"
    /\ tz # 0
    /\ Ranks(args) = <<1, 2, 3, 4, 5, 6, 7, 8, 9, 10, 10, 10>>

\* C27: a decode error is raised for a line only if the repaired line does
\* not parse; a line that parses produces exactly one 'message' signal and
\* no 'error' signal, whatever the 'message' subscribers do.
C27_DecodeErrorOnlyOnParseFailure ==
    nLines = 1 =>
        LET parses == JSONParse(Repair(rawLine)).ok
            errors == {i \in 1..Len(signals) : signals[i].kind = "error"}
            messages == {i \in 1..Len(signals) : signals[i].kind = "message"}
        IN  /\ (errors # {} \/ thrown = "decode") => ~parses
            /\ parses => Cardinality(messages) = 1 /\ errors = {} /\ thrown = "none"

\* C11: the error of an abnormal exit carries the standard-error text
\* received up to the exit, in arrival order, when there is some, and the
\* generic message 'Process exited with code N' when there is none.
C11_ExitErrorText ==
    (procState = "exited" /\ exitCode = 1) =>
        \/ /\ exitErrorMsg.from = "stderr"
           /\ exitErrorMsg.text # <<>>
           /\ IsPrefix(exitErrorMsg.text, stdErrorText.text)
        \/ exitErrorMsg = [from |-> "generic", text |-> <<>>, code |-> 1]

\* C12: after a spawn failure exactly one 'error' was emitted (delivered, or
\* thrown by emit when nobody listens) and no signal follows it; its text is
\* 'executable not found' for ENOENT, 'not accessible' for EACCES, and the
\* original error otherwise.
C12_SpawnFailureOneError ==
    procState = "spawnError" =>
        LET t == IF spawnErr = "ENOENT" THEN NotFoundText
                 ELSE IF spawnErr = "EACCES" THEN NotAccessibleText
                 ELSE spawnErr
        IN  /\ spawnErr \in SpawnErrors
            /\ \/ ~crashed /\ signals = <<SigError(t)>> /\ thrown = "none"
               \/ crashed /\ signals = <<>> /\ thrown = t

\* A permission failure was reported to a subscriber, and stop() was tried.
C12_Witness ==
    /\ procState = "spawnError"
    /\ spawnErr = "EACCES"
    /\ signals = <<SigError(NotAccessibleText)>>
    /\ killSent

\* C13: once stop() was called on a running instance and the exit handler
\* has run, the 'exit' signal has been emitted.
C13_StopLeadsToExit ==
    (killSent /\ procState = "exited") =>
        \E i \in 1..Len(signals) : signals[i].kind = "exit"

\* C16: a malformed line is not fatal: every line delivered so far has
\* produced its signal, a 'message' or a decode 'error', and the handler of
\* no line has thrown.
C16_MalformedLineNonFatal ==
    /\ thrown # "decode"
    /\ Cardinality({i \in 1..Len(signals) :
                       signals[i].cause \in {"line", "decode"}}) = nLines

\* C28: stopping is not an error: once the subprocess has terminated after
\* stop() without an exit code, the 'exit' signal has been emitted once and
\* no 'error' signal was raised for the termination, and a pull sequence
\* whose body had started before the exit signal is never left waiting: its
\* awaited promise is settled, it ends by returning after the records
\* emitted before the first error or exit signal, and it does not throw.
C28_StopIsNotAnError ==
    (killSent /\ procState = "exited" /\ exitCode = NullCode) =>
        LET X == {i \in 1..Len(signals) : signals[i] = SigExit}
        IN  /\ Cardinality(X) = 1
            /\ \A i \in 1..Len(signals) : signals[i] # SigError("exit")
            /\ exitErrorMsg = NoMessage
            /\ thrown # "exit"
            /\ \A g \in Gens :
                   (Subscribed(g) /\ \E x \in X : startAt[g] < x) =>
                       /\ genState[g] = "awaiting" => Awaited(closure[g]).settled
                       /\ (genState[g] = "awaiting"
                              /\ yielded[g] = Expected(startAt[g])) =>
                              Awaited(closure[g]) = Resolved(UNDEF)
                       /\ genState[g] = "completed" =>
                              /\ yielded[g] = Expected(startAt[g])
                              /\ ret[g] >= Len(yielded[g])

\* stop() was called while a started pull sequence was waiting; the
\* subprocess was killed, and the sequence, having yielded one record, has
\* returned on the exit signal.
C28_Witness ==
    /\ killSent /\ procState = "exited" /\ exitCode = NullCode
    /\ \E g \in Gens :
           /\ genState[g] = "completed"
           /\ yielded[g] = <<1>>
           /\ signals[FirstStopAfter(startAt[g])] = SigExit

====
